---- MODULE Spec2Model ----
(***************************************************************************)
(* Model of the route quality evaluator (evaluator.py, RouteEvaluator) and *)
(* of the chat caller in main.py that displays and saves a scored route.   *)
(*                                                                         *)
(* Number representation.  The Python code computes in binary floating    *)
(* point; TLC has only integers, so every quantity is a fixed-point        *)
(* integer:                                                                *)
(*   coordinates   micro-degrees  (39.3292 deg  = 39329200)                *)
(*   distances     micro-miles    (0.2 mi       = 200000)                  *)
(*   parsed claims thousandths    ("2.3 miles"  = 2300)                    *)
(*   check scores  tenths         (12.5         = 125)                     *)
(* Ratios are never stored: every comparison of a quotient against a       *)
(* threshold is cross-multiplied, so it is exact on the fixed-point values.*)
(***************************************************************************)
EXTENDS Integers, Sequences, FiniteSets, TLC

\* ------------------------------------------------------------------------
\* Bounds of the model
\* ------------------------------------------------------------------------
\* longest enumerated waypoint list (longer, named routes are added below)
MaxWp == 3
\* most event records in the event store
MaxEvents == 2
\* threads that call score_route concurrently
MaxThreads == 2

\* ------------------------------------------------------------------------
\* Small helpers
\* ------------------------------------------------------------------------
Abs(x) == IF x < 0 THEN -x ELSE x

Min(a, b) == IF a <= b THEN a ELSE b

Max(a, b) == IF a >= b THEN a ELSE b

\* all sequences over S of length 0..n
SeqsUpTo(S, n) == UNION {[1..k -> S] : k \in 0..n}

\* F applied to the values of a, b, c, each evaluated once
Bind1(a, F(_)) == CHOOSE r \in {F(x) : x \in {a}} : TRUE

Bind2(a, b, F(_, _)) == CHOOSE r \in {F(x, y) : x \in {a}, y \in {b}} : TRUE

Bind3(a, b, c, F(_, _, _)) ==
    CHOOSE r \in {F(x, y, z) : x \in {a}, y \in {b}, z \in {c}} : TRUE

\* integer square root (floor) by Newton's iteration from a guess x >= sqrt(n)
RECURSIVE SqrtFrom(_, _)
SqrtFrom(n, x) ==
    IF x = 0 THEN 0
    ELSE Bind1((x + n \div x) \div 2,
               LAMBDA y : IF y >= x THEN x ELSE SqrtFrom(n, y))

\* Python round(x, 1) of the exact value num/den (den > 0, num >= 0), in
\* tenths: round to nearest, an exact tie to the even neighbour.
Round1(num, den) ==
    Bind2((10 * num) \div den, (10 * num) % den,
          LAMBDA q, r : IF 2 * r > den THEN q + 1
                        ELSE IF 2 * r < den THEN q
                        ELSE IF q % 2 = 0 THEN q ELSE q + 1)

\* ------------------------------------------------------------------------
\* Evaluator configuration (RouteEvaluator.__init__)
\* ------------------------------------------------------------------------
\* self.center, micro-degrees
center == <<39329200, -82101300>>

\* self.bounds, micro-degrees
bounds == [min_lat |-> 39200000, max_lat |-> 39450000,
           min_lon |-> -82250000, max_lon |-> -81950000]

\* weights that no longer sum to 100: event_proximity 35
weights_heavy_events ==
    [event_proximity |-> 35, route_efficiency |-> 20,
     speed_sanity |-> 20, geofence |-> 15,
     completeness |-> 10, waypoint_quality |-> 10]

\* weights that no longer sum to 100: waypoint_quality 15
weights_heavy_quality ==
    [event_proximity |-> 25, route_efficiency |-> 20,
     speed_sanity |-> 20, geofence |-> 15,
     completeness |-> 10, waypoint_quality |-> 15]

\* self.weights
weights == [event_proximity |-> 25, route_efficiency |-> 20,
            speed_sanity |-> 20, geofence |-> 15,
            completeness |-> 10, waypoint_quality |-> 10]

\* self.min_walk_speed, self.max_walk_speed, in tenths of a mile per hour
min_walk_speed == 15
max_walk_speed == 45

\* ------------------------------------------------------------------------
\* haversine_distance: great-circle distance, micro-degrees -> 1e-5 miles
\* ------------------------------------------------------------------------
\* R = 3958.8 miles, in tenths of a mile
EarthRadius == 39588

\* the same with R = 6371 kilometres
KilometresPerDegree == (6371 * 35500) \div (113 * 18)

\* R * pi / 180 with pi = 355/113: thousandths of a micro-mile per
\* micro-degree of arc (69094, i.e. 69.094 miles per degree)
MilesPerDegree == (EarthRadius * 35500) \div (113 * 180)

\* cos(lat) * 10^4 for lat in micro-degrees, linearised about the configured
\* centre latitude: cos(39.3292 deg) = 0.7735, sin(39.3292 deg) = 0.6338,
\* so the slope is 0.6338 * pi / 180 = 1.106e-8 per micro-degree.
CosE4(lat) ==
    LET d == lat - center[1]
        lin == (Abs(d) * 1106) \div 10000000
    IN  IF d >= 0 THEN 7735 - lin ELSE 7735 + lin

\* The floating-point mantissa: the two coordinate differences are brought
\* to at most 30000 units (so that squares fit the integers) and at least a
\* few hundred (so that short distances keep their digits).  The result is
\* <<mul, div>>: the differences are scaled by mul / div.
HavScale(m) ==
    IF m <= 300 THEN <<100, 1>>
    ELSE IF m <= 3000 THEN <<10, 1>>
    ELSE IF m <= 30000 THEN <<1, 1>>
    ELSE IF m <= 300000 THEN <<1, 10>>
    ELSE <<1, 100>>

\* For the arcs of the model (at most a few degrees) sin x = x and
\* atan2(sqrt a, sqrt(1 - a)) = sqrt a to within the fixed-point precision,
\* so R * c = R * sqrt(dlat^2 + cos(lat1) cos(lat2) dlon^2), the angles in
\* radians.
haversine_distance(coord1, coord2) ==
    LET dlat == Abs(coord2[1] - coord1[1])
        dlon == Abs(coord2[2] - coord1[2])
        sc   == HavScale(Max(dlat, dlon))
        u    == (dlat * sc[1]) \div sc[2]
        v    == (dlon * sc[1]) \div sc[2]
        cos1 == CosE4(coord1[1])
        cos2 == CosE4(coord2[1])
        w    == (v * SqrtFrom(cos1 * cos2, Max(cos1, cos2))) \div 10000
        k    == MilesPerDegree
        miles(c) == (c * (k \div 10) + (c * (k % 10)) \div 10)
                      \div ((1000 * sc[1]) \div sc[2])
    IN  Bind2(u, w, LAMBDA a, b : miles(SqrtFrom(a * a + b * b, a + b)))

\* sum of the consecutive-pair distances of a waypoint list
\* (the loops of _check_efficiency and _check_speed)
RECURSIVE PathFrom(_, _)
PathFrom(waypoints, i) ==
    IF i >= Len(waypoints) THEN 0
    ELSE haversine_distance(waypoints[i], waypoints[i + 1])
         + PathFrom(waypoints, i + 1)

PathDistance(waypoints) == PathFrom(waypoints, 1)

\* ------------------------------------------------------------------------
\* extract_number: the first match of (\d+(\.\d+)?) in a text, as a float;
\* 0.0 when there is none.  A text is a tuple of one-character strings and
\* the value is in thousandths.
\* ------------------------------------------------------------------------
Digits == {"0", "1", "2", "3", "4", "5", "6", "7", "8", "9"}

DigitVal(ch) ==
    CASE ch = "0" -> 0 [] ch = "1" -> 1 [] ch = "2" -> 2 [] ch = "3" -> 3
      [] ch = "4" -> 4 [] ch = "5" -> 5 [] ch = "6" -> 6 [] ch = "7" -> 7
      [] ch = "8" -> 8 [] ch = "9" -> 9

\* index of the last character of the digit run that starts at i
RECURSIVE RunEnd(_, _)
RunEnd(text, i) ==
    IF i < Len(text) /\ text[i + 1] \in Digits THEN RunEnd(text, i + 1) ELSE i

\* value of the digits text[i..j] read as an integer
RECURSIVE IntOf(_, _, _)
IntOf(text, i, j) ==
    IF j < i THEN 0 ELSE 10 * IntOf(text, i, j - 1) + DigitVal(text[j])

\* value in thousandths of the fraction digits text[i..j]
\* (digits after the third are below the fixed-point precision)
FracOf(text, i, j) ==
    LET d1 == DigitVal(text[i])
        d2 == IF i + 1 <= j THEN DigitVal(text[i + 1]) ELSE 0
        d3 == IF i + 2 <= j THEN DigitVal(text[i + 2]) ELSE 0
    IN  100 * d1 + 10 * d2 + d3

extract_number(text) ==
    LET starts == {i \in 1..Len(text) : text[i] \in Digits}
    IN  IF starts = {} THEN 0
        ELSE LET i == CHOOSE a \in starts : \A b \in starts : a <= b
                 j == RunEnd(text, i)
                 hasFrac == /\ j + 2 <= Len(text)
                            /\ text[j + 1] = "."
                            /\ text[j + 2] \in Digits
             IN  1000 * IntOf(text, i, j)
                   + (IF hasFrac THEN FracOf(text, j + 2, RunEnd(text, j + 2))
                                 ELSE 0)

\* ------------------------------------------------------------------------
\* Python values.  A dictionary field is <<>> when the key is absent and
\* <<v>> when it holds v; strings and lists are tuples, so the empty string
\* and the empty list are both <<>>.
\* ------------------------------------------------------------------------
Absent == <<>>

Has(v) == <<v>>

\* dict.get(key, default)
Get(field, default) == IF field = Absent THEN default ELSE field[1]

\* the key is in the dict, whatever its value
HasKey(field) == field # Absent

\* truth value of dict.get(key): None is falsy, and so are "" and [] ...
Truthy(field) == field # Absent /\ field[1] # <<>>

\* ... the number 0 ...
TruthyNum(field) == field # Absent /\ field[1] # 0

\* ... and False
TruthyBool(field) == field # Absent /\ field[1]

\* a line of a check's details or warnings: the message and the numbers
\* formatted into it
Msg(kind, args) == [kind |-> kind, args |-> args]

CheckResult(name, score, max, details, warns) ==
    [name |-> name, score |-> score, max |-> max,
     details |-> details, warnings |-> warns]

\* ------------------------------------------------------------------------
\* load_events: the "events" list of events.json, [] when the file is
\* missing, cannot be opened or does not parse
\* ------------------------------------------------------------------------
\* load_events that hands back the list it last read when the read fails
load_events_stale(file) == file.events

load_events(file) ==
    IF file.status = "ok" THEN file.events ELSE <<>>

\* ------------------------------------------------------------------------
\* _check_completeness
\* ------------------------------------------------------------------------
required_fields == <<"waypoints", "total_distance", "estimated_time">>

optional_fields == <<"route_description", "points_of_interest", "local_events">>

check_completeness(route_data) ==
    LET max == weights.completeness
        present(fields) == {i \in DOMAIN fields : Truthy(route_data[fields[i]])}
        required_present == Cardinality(present(required_fields))
        optional_present == Cardinality(present(optional_fields))
        line(i) == IF i \in present(required_fields)
                   THEN <<Msg("field present", <<i>>)>> ELSE <<>>
        warn(i) == IF i \in present(required_fields)
                   THEN <<>> ELSE <<Msg("Missing required field", <<i>>)>>
        \* (rp / 3) * 0.6 * max + (op / 3) * 0.4 * max
        num == max * (6 * required_present * Len(optional_fields)
                      + 4 * optional_present * Len(required_fields))
        den == 10 * Len(required_fields) * Len(optional_fields)
    IN  CheckResult("Completeness", Round1(num, den), max,
                    line(1) \o line(2) \o line(3)
                      \o <<Msg("Required/Optional",
                               <<required_present, optional_present>>)>>,
                    warn(1) \o warn(2) \o warn(3))

\* ------------------------------------------------------------------------
\* _check_waypoint_quality
\* ------------------------------------------------------------------------
\* round(x, 5) of a coordinate in micro-degrees, in units of 1e-5 degree
Round5(x) ==
    LET a == Abs(x)
        q == a \div 10
        r == a % 10
        n == IF r > 5 \/ (r = 5 /\ q % 2 = 1) THEN q + 1 ELSE q
    IN  IF x < 0 THEN -n ELSE n

WpKey(wp) == <<Round5(wp[1]), Round5(wp[2])>>

\* number of waypoints whose key was already seen
CountDuplicates(waypoints) ==
    Cardinality({i \in 1..Len(waypoints) :
                   \E j \in 1..(i - 1) : WpKey(waypoints[j]) = WpKey(waypoints[i])})

\* number of consecutive pairs less than 0.001 mile apart
CountTinyGaps(waypoints) ==
    Cardinality({i \in 1..(Len(waypoints) - 1) :
                   haversine_distance(waypoints[i], waypoints[i + 1]) < 100})

\* the score factor without the floor at zero
UnclampedScore(count_score) == count_score

\* max(0, count_score)
ClampedScore(count_score) == Max(0, count_score)

\* a penalty without the cap at 0.3
DuplicatePenaltyUncapped(duplicates) == duplicates

\* min(duplicates * 0.1, 0.3) when there are duplicates, in tenths
DuplicatePenalty(duplicates) ==
    IF duplicates > 0 THEN Min(duplicates, 3) ELSE 0

QualityResult(waypoints, duplicates, tiny_gaps) ==
    LET max == weights.waypoint_quality
        count == Len(waypoints)
        \* count_score and the penalties, in tenths
        base == IF count >= 10 THEN 10
                ELSE IF count >= 5 THEN 8
                ELSE IF count >= 3 THEN 5
                ELSE 2
        duplicate_penalty == DuplicatePenalty(duplicates)
        many_tiny == 10 * tiny_gaps > 3 * count     \* tiny_gaps > count * 0.3
        count_score == base - duplicate_penalty - (IF many_tiny THEN 2 ELSE 0)
        unique == Cardinality({WpKey(waypoints[i]) : i \in 1..count})
    IN  CheckResult("Waypoint Quality", ClampedScore(count_score) * max, max,
                    <<Msg("Waypoint count", <<count>>),
                      Msg("Unique points", <<unique>>)>>,
                    (IF count < 3
                     THEN <<Msg("Too few waypoints for smooth route", <<count>>)>>
                     ELSE <<>>)
                    \o (IF duplicates > 0
                        THEN <<Msg("Found duplicate waypoints", <<duplicates>>)>>
                        ELSE <<>>)
                    \o (IF many_tiny
                        THEN <<Msg("Many waypoints too close together", <<tiny_gaps>>)>>
                        ELSE <<>>))

check_waypoint_quality(waypoints) ==
    Bind3(waypoints, CountDuplicates(waypoints), CountTinyGaps(waypoints),
          QualityResult)

\* ------------------------------------------------------------------------
\* _check_geofence
\* ------------------------------------------------------------------------
\* a waypoint strictly inside the bounds
InBoundsOpen(wp) ==
    /\ bounds.min_lat < wp[1] /\ wp[1] < bounds.max_lat
    /\ bounds.min_lon < wp[2] /\ wp[2] < bounds.max_lon

InBounds(wp) ==
    /\ bounds.min_lat <= wp[1] /\ wp[1] <= bounds.max_lat
    /\ bounds.min_lon <= wp[2] /\ wp[2] <= bounds.max_lon

\* the 0-based indices of the waypoints outside the bounds, ascending
RECURSIVE OutOfBounds(_, _)
OutOfBounds(waypoints, i) ==
    IF i > Len(waypoints) THEN <<>>
    ELSE (IF InBounds(waypoints[i]) THEN <<>> ELSE <<i - 1>>)
         \o OutOfBounds(waypoints, i + 1)

GeofenceResult(total, out_of_bounds) ==
    LET max == weights.geofence
        in_bounds == total - Len(out_of_bounds)
        score == IF total > 0 THEN Round1(in_bounds * max, total) ELSE 0
        shown == SubSeq(out_of_bounds, 1, Min(5, Len(out_of_bounds)))
    IN  CheckResult("Geofence", score, max,
                    <<Msg("In bounds", <<in_bounds, total>>)>>,
                    IF out_of_bounds # <<>>
                    THEN <<Msg(IF Len(out_of_bounds) > 5
                               THEN "Waypoints outside Athens area: indices ..."
                               ELSE "Waypoints outside Athens area: indices",
                               shown)>>
                    ELSE <<>>)

check_geofence(waypoints) ==
    Bind2(Len(waypoints), OutOfBounds(waypoints, 1), GeofenceResult)

\* ------------------------------------------------------------------------
\* _check_efficiency
\* ------------------------------------------------------------------------
\* a ratio without the branch for a closed loop
EfficiencyRatioNoLoop(path_distance, direct_distance) ==
    IF path_distance > 0 THEN <<direct_distance, path_distance>> ELSE <<0, 1>>

\* the efficiency ratio as a fraction <<numerator, denominator>>
EfficiencyRatio(path_distance, direct_distance) ==
    IF direct_distance > 0
    THEN (IF path_distance > 0 THEN <<direct_distance, path_distance>>
                               ELSE <<0, 1>>)
    ELSE <<1, 2>>

\* a band chain that leaves 0.25 and 0.85 out of the ideal range
EfficiencyBandOpen(n, d) ==
    IF 4 * n > d /\ 20 * n < 17 * d THEN "ideal"
    ELSE IF 20 * n > 17 * d THEN "direct"
    ELSE IF 4 * n < d THEN "zigzag"
    ELSE "fallback"

\* a band chain whose second test is ratio > 1.0
EfficiencyBandGap(n, d) ==
    IF 4 * n >= d /\ 20 * n <= 17 * d THEN "ideal"
    ELSE IF n > d THEN "direct"
    ELSE IF 4 * n < d THEN "zigzag"
    ELSE "fallback"

\* the band of ratio = n / d chosen by the if / elif / else chain
EfficiencyBand(n, d) ==
    IF 4 * n >= d /\ 20 * n <= 17 * d THEN "ideal"     \* 0.25 <= ratio <= 0.85
    ELSE IF 20 * n > 17 * d THEN "direct"              \* ratio > 0.85
    ELSE IF 4 * n < d THEN "zigzag"                    \* ratio < 0.25
    ELSE "fallback"

\* a zigzag score that leaves out the division by 0.25
ZigzagScoreUnscaled(max, n, d) == Round1(6 * max * n, 10 * d)

\* round(ratio / 0.25 * 0.6 * max, 1), in tenths
ZigzagScore(max, n, d) == Round1(24 * max * n, 10 * d)

EfficiencyResult(path_distance, direct_distance) ==
    LET max == weights.route_efficiency
        ratio == EfficiencyRatio(path_distance, direct_distance)
        n == ratio[1]
        d == ratio[2]
        band == EfficiencyBand(n, d)
        \* score_ratio * max, rounded to one decimal
        score == IF band = "ideal" THEN 10 * max
                 ELSE IF band = "direct" THEN 8 * max
                 ELSE IF band = "zigzag" THEN ZigzagScore(max, n, d)
                 ELSE 5 * max
    IN  CheckResult("Route Efficiency", score, max,
            (IF direct_distance > 0 THEN <<>>
             ELSE <<Msg("Circular route detected", <<>>)>>)
            \o <<Msg("Path distance", <<path_distance>>),
                 Msg("Direct distance", <<direct_distance>>),
                 Msg("Efficiency ratio", <<n, d>>)>>
            \o (IF band = "direct"
                THEN <<Msg("Route is very direct", <<>>)>> ELSE <<>>),
            IF band = "zigzag"
            THEN <<Msg("Route appears to zigzag excessively", <<>>)>>
            ELSE <<>>)

check_efficiency(waypoints) ==
    IF Len(waypoints) < 2
    THEN CheckResult("Route Efficiency", 0, weights.route_efficiency, <<>>, <<>>)
    ELSE Bind2(PathDistance(waypoints),
               haversine_distance(waypoints[1], waypoints[Len(waypoints)]),
               EfficiencyResult)

\* ------------------------------------------------------------------------
\* _check_speed
\* ------------------------------------------------------------------------
\* extract_number(route_data.get(field, '0')): the literal default '0'
\* parses to 0.0
ClaimedNumber(field) == extract_number(Get(field, <<"0">>))

\* a distance band whose limits are exclusive
DistanceBandStrict(claimed_distance, actual_distance) ==
    LET error == Abs(actual_distance - 100 * claimed_distance)
        claimed == 100 * claimed_distance
    IN  IF claimed_distance <= 0 THEN "none"
        ELSE IF 5 * error < claimed THEN "acceptable"
        ELSE IF 2 * error < claimed THEN "high"
        ELSE "mismatch"

\* a distance band without the test claimed_distance > 0
DistanceBandUnguarded(claimed_distance, actual_distance) ==
    LET error == Abs(actual_distance - 100 * claimed_distance)
        claimed == 100 * claimed_distance
    IN  IF 5 * error <= claimed THEN "acceptable"
        ELSE IF 2 * error <= claimed THEN "high"
        ELSE "mismatch"

\* the branch of the distance accuracy test: |actual - claimed| / claimed
\* against 0.2 and 0.5, with actual in 1e-5 mile and the claim in thousandths
DistanceBand(claimed_distance, actual_distance) ==
    LET error == Abs(actual_distance - 100 * claimed_distance)
        claimed == 100 * claimed_distance
    IN  IF claimed_distance <= 0 THEN "none"
        ELSE IF 5 * error <= claimed THEN "acceptable"     \* <= 0.2
        ELSE IF 2 * error <= claimed THEN "high"           \* <= 0.5
        ELSE "mismatch"

\* a speed band whose limits are exclusive
SpeedBandStrict(claimed_distance, claimed_time) ==
    IF ~(claimed_time > 0 /\ claimed_distance > 0) THEN "none"
    ELSE IF /\ min_walk_speed * claimed_time < 600 * claimed_distance
            /\ 600 * claimed_distance < max_walk_speed * claimed_time
         THEN "reasonable"
    ELSE IF 600 * claimed_distance <= min_walk_speed * claimed_time THEN "slow"
    ELSE IF 600 * claimed_distance < 60 * claimed_time THEN "jogging"
    ELSE "unrealistic"

\* the branch of the speed test: speed_mph = claimed_distance /
\* (claimed_time / 60), compared in tenths of a mile per hour as
\* 10 * speed_mph = 600 * claimed_distance / claimed_time
SpeedBand(claimed_distance, claimed_time) ==
    IF ~(claimed_time > 0 /\ claimed_distance > 0) THEN "none"
    ELSE IF /\ min_walk_speed * claimed_time <= 600 * claimed_distance
            /\ 600 * claimed_distance <= max_walk_speed * claimed_time
         THEN "reasonable"
    ELSE IF 600 * claimed_distance < min_walk_speed * claimed_time THEN "slow"
    ELSE IF 600 * claimed_distance <= 60 * claimed_time THEN "jogging"
    ELSE "unrealistic"

SpeedResult(claimed_distance, claimed_time, actual_distance) ==
    LET max == weights.speed_sanity
        error == Abs(actual_distance - 100 * claimed_distance)
        claimed == 100 * claimed_distance
        distance == DistanceBand(claimed_distance, actual_distance)
        speed == SpeedBand(claimed_distance, claimed_time)
        \* score, in tenths
        distance_part == IF distance = "acceptable" THEN 5
                         ELSE IF distance = "high" THEN 3 ELSE 0
        speed_part == IF speed = "reasonable" THEN 5
                      ELSE IF speed \in {"slow", "jogging"} THEN 3 ELSE 0
    IN  CheckResult("Speed Sanity", (distance_part + speed_part) * max, max,
            <<Msg("Claimed distance", <<claimed_distance>>),
              Msg("Calculated distance", <<actual_distance>>),
              Msg("Claimed time", <<claimed_time>>)>>
            \o (IF distance = "acceptable"
                THEN <<Msg("Distance error (acceptable)", <<error, claimed>>)>>
                ELSE IF distance = "high"
                THEN <<Msg("Distance error (high)", <<error, claimed>>)>>
                ELSE <<>>)
            \o (IF speed # "none"
                THEN <<Msg("Implied speed", <<claimed_distance, claimed_time>>)>>
                     \o (IF speed = "reasonable"
                         THEN <<Msg("Speed is reasonable for walking", <<>>)>>
                         ELSE IF speed = "slow"
                         THEN <<Msg("Speed is slow (may include stops)", <<>>)>>
                         ELSE <<>>)
                ELSE <<>>),
            (IF distance = "mismatch"
             THEN <<Msg("Distance mismatch",
                        <<claimed_distance, actual_distance>>)>>
             ELSE <<>>)
            \o (IF speed = "jogging"
                THEN <<Msg("Speed is fast - jogging pace",
                           <<claimed_distance, claimed_time>>)>>
                ELSE IF speed = "unrealistic"
                THEN <<Msg("Speed is unrealistic for walking",
                           <<claimed_distance, claimed_time>>)>>
                ELSE <<>>))

check_speed(route_data, waypoints) ==
    Bind3(ClaimedNumber(route_data.total_distance),
          ClaimedNumber(route_data.estimated_time),
          PathDistance(waypoints),
          SpeedResult)

\* ------------------------------------------------------------------------
\* _check_event_proximity
\* ------------------------------------------------------------------------
\* proximity_threshold = 0.2 miles, in 1e-5 mile
proximity_threshold == 20000

IsGeocoded(e) == TruthyBool(e.geocoded) /\ TruthyNum(e.lat) /\ TruthyNum(e.lon)

\* minimum distance from any waypoint to a coordinate: the loop
\* "min_distance = min(min_distance, dist)" over a non-empty waypoint list
MinDistance(waypoints, coord) ==
    Bind1({haversine_distance(waypoints[i], coord) : i \in DOMAIN waypoints},
          LAMBDA dists : CHOOSE m \in dists : \A x \in dists : m <= x)

EventCoord(e) == <<e.lat[1], e.lon[1]>>

\* The loop over the geocoded events: each event's minimum distance, or
\* "KeyError" for an event without the key 'name', whose detail line
\* (event['name']) cannot be formatted.
ProximityLoop(waypoints, geocoded_events) ==
    LET max == weights.event_proximity
        result(min_distances) ==
            LET near == {i \in DOMAIN min_distances :
                            min_distances[i] <= proximity_threshold}
                events_near_route == Cardinality(near)
                total == Len(geocoded_events)
                line(i) == Msg(IF i \in near THEN "PASS" ELSE "MISS",
                               <<geocoded_events[i].name[1], min_distances[i]>>)
            IN  CheckResult("Event Proximity",
                    Round1(events_near_route * max, total), max,
                    [i \in DOMAIN min_distances |-> line(i)]
                      \o <<Msg("Route passes events within threshold",
                               <<events_near_route, total>>)>>,
                    IF events_near_route = 0
                    THEN <<Msg("Route does not pass near any known events", <<>>)>>
                    ELSE <<>>)
    IN  IF \E i \in DOMAIN geocoded_events : geocoded_events[i].name = Absent
        THEN [raised |-> TRUE,
              result |-> CheckResult("Event Proximity", 0, max, <<>>, <<>>)]
        ELSE [raised |-> FALSE,
              result |-> Bind1(<<>> \o [i \in DOMAIN geocoded_events |->
                                   MinDistance(waypoints,
                                               EventCoord(geocoded_events[i]))],
                               result)]

\* an event store without events costs the route its credit
NoCredit(max) == 0

\* result['max'] * 0.5, in tenths
NeutralCredit(max) == 5 * max

\* The check returns [raised, result]: raised is TRUE when event['name']
\* raises KeyError and no result is produced.
check_event_proximity(route_data, waypoints, file) ==
    LET max == weights.event_proximity
        route_events == Get(route_data.local_events, <<>>)
        route_poi == Get(route_data.points_of_interest, <<>>)
        neutral(detail) ==
            [raised |-> FALSE,
             result |-> CheckResult("Event Proximity", NeutralCredit(max), max,
                                    <<Msg(detail, <<>>)>>, <<>>)]
        proximity(geocoded_events) ==
            IF geocoded_events = <<>>
            THEN neutral("No geocoded events to verify against")
            ELSE IF route_events = <<>> /\ route_poi = <<>>
            THEN neutral("Route does not reference specific events")
            ELSE ProximityLoop(waypoints, geocoded_events)
    IN  Bind1(SelectSeq(load_events(file), IsGeocoded), proximity)

\* ------------------------------------------------------------------------
\* score_route
\* ------------------------------------------------------------------------
\* the report as score_route creates it
EmptyReport ==
    [total_score |-> 0, max_score |-> 100, checks |-> <<>>,
     warnings |-> <<>>, summary |-> ""]

Check(id, result) == [id |-> id, result |-> result]

\* round-to-nearest instead of int()
IntRounded(total) == (total + 5) \div 10

\* int(total) of a score total in tenths: truncation toward zero
IntOfTotal(total) == IF total >= 0 THEN total \div 10 ELSE -((-total) \div 10)

\* the bands without the last "else"
SummaryNoFloor(total) ==
    IF total >= 800 THEN "Good quality route"
    ELSE IF total >= 600 THEN "Acceptable route with some issues"
    ELSE IF total >= 400 THEN "Poor quality route - review warnings"
    ELSE ""

\* the summary band of a total in tenths
Summary(total) ==
    IF total >= 800 THEN "Good quality route"
    ELSE IF total >= 600 THEN "Acceptable route with some issues"
    ELSE IF total >= 400 THEN "Poor quality route - review warnings"
    ELSE "Low quality route - significant issues"

\* Speed Sanity run only when Completeness found every required field
FirstChecksGated(route_data, waypoints) ==
    Bind1(check_completeness(route_data),
          LAMBDA c :
            <<Check("completeness", c),
              Check("waypoint_quality", check_waypoint_quality(waypoints)),
              Check("geofence", check_geofence(waypoints)),
              Check("route_efficiency", check_efficiency(waypoints))>>
            \o (IF c.warnings = <<>>
                THEN <<Check("speed_sanity", check_speed(route_data, waypoints))>>
                ELSE <<>>))

\* the five checks that precede Event Proximity, in evaluation order;
\* report['checks'] is a dict, which keeps insertion order
FirstChecks(route_data, waypoints) ==
    <<Check("completeness", check_completeness(route_data)),
      Check("waypoint_quality", check_waypoint_quality(waypoints)),
      Check("geofence", check_geofence(waypoints)),
      Check("route_efficiency", check_efficiency(waypoints)),
      Check("speed_sanity", check_speed(route_data, waypoints))>>

\* the loop "for check_name, check_result in report['checks'].items()":
\* the scores summed and the warnings appended, check after check
RECURSIVE TotalOf(_, _)
TotalOf(checks, k) ==
    IF k = 0 THEN 0 ELSE TotalOf(checks, k - 1) + checks[k].result.score

\* each check's warnings put in front of those collected so far
RECURSIVE WarningsPrepended(_, _)
WarningsPrepended(checks, k) ==
    IF k = 0 THEN <<>>
    ELSE checks[k].result.warnings \o WarningsPrepended(checks, k - 1)

RECURSIVE WarningsOf(_, _)
WarningsOf(checks, k) ==
    IF k = 0 THEN <<>>
    ELSE WarningsOf(checks, k - 1) \o checks[k].result.warnings

\* the report of a run of all six checks
Aggregate(checks) ==
    Bind1(TotalOf(checks, Len(checks)),
          LAMBDA total :
            [EmptyReport EXCEPT !.total_score = IntOfTotal(total),
                                !.checks = checks,
                                !.warnings = WarningsOf(checks, Len(checks)),
                                !.summary = Summary(total)])

\* the outcome of a call: raised is TRUE when an exception leaves it
Returned(report) ==
    [raised |-> FALSE, score |-> report.total_score, report |-> report]

Raised(report) == [raised |-> TRUE, score |-> 0, report |-> report]

RunChecks(route_data, waypoints, file) ==
    Bind2(FirstChecks(route_data, waypoints),
          check_event_proximity(route_data, waypoints, file),
          LAMBDA first, ep :
            IF ep.raised
            THEN Raised([EmptyReport EXCEPT !.checks = first])
            ELSE Bind1(Aggregate(Append(first, Check("event_proximity", ep.result))),
                       Returned))

\* score_route whose critical-failure test is only "not waypoints"
score_route_no_length_test(route_data, file) ==
    Bind1(Get(route_data.waypoints, <<>>),
          LAMBDA waypoints :
            IF waypoints = <<>>
            THEN Returned([EmptyReport EXCEPT
                    !.warnings = <<Msg("CRITICAL: No valid waypoints found", <<>>)>>,
                    !.summary = "Route failed - no waypoints"])
            ELSE RunChecks(route_data, waypoints, file))

\* score_route(route_data) with events.json holding `file`
score_route(route_data, file) ==
    Bind1(Get(route_data.waypoints, <<>>),
          LAMBDA waypoints :
            IF waypoints = <<>> \/ Len(waypoints) < 2
            THEN Returned([EmptyReport EXCEPT
                    !.warnings = <<Msg("CRITICAL: No valid waypoints found", <<>>)>>,
                    !.summary = "Route failed - no waypoints"])
            ELSE RunChecks(route_data, waypoints, file))

\* ------------------------------------------------------------------------
\* The chat caller (main.py, tab1): the banner it shows for a scored route
\* ------------------------------------------------------------------------
NoDisplay == [level |-> "none", score |-> 0, summary |-> ""]

\* the banner chosen with strict comparisons
DisplayStrict(score, report) ==
    [level |-> IF score > 80 THEN "success"
               ELSE IF score > 60 THEN "info"
               ELSE IF score > 40 THEN "warning"
               ELSE "error",
     score |-> score, summary |-> report.summary]

\* st.success / st.info / st.warning / st.error by the returned score
Display(score, report) ==
    [level |-> IF score >= 80 THEN "success"
               ELSE IF score >= 60 THEN "info"
               ELSE IF score >= 40 THEN "warning"
               ELSE "error",
     score |-> score, summary |-> report.summary]

\* What the handler does with a scored route (main.py 207-209):
\*   st.session_state.routes.append(route_data['waypoints'])
\*   st.session_state.map_center = route_data['waypoints'][0]
\* added: what was appended to the session's routes; center: the new map
\* center, if one was set; error: the exception that ended the handler.
NotSaved == [added |-> <<>>, center |-> <<>>, error |-> "none"]

SaveRoute(route_data) ==
    IF route_data.waypoints = Absent
    THEN [added |-> <<>>, center |-> <<>>, error |-> "KeyError"]
    ELSE IF route_data.waypoints[1] = <<>>
    THEN [added |-> <<route_data.waypoints[1]>>, center |-> <<>>,
          error |-> "IndexError"]
    ELSE [added |-> <<route_data.waypoints[1]>>,
          center |-> <<route_data.waypoints[1][1]>>, error |-> "none"]

\* ------------------------------------------------------------------------
\* Inputs of the model: waypoints, claimed texts, routes, event records
\* ------------------------------------------------------------------------
\* waypoints: the centre, 0.07 mile north of it, and 11.8 miles north of it
\* (outside the bounds)
PA == center
PB == <<39330200, -82101300>>
PX == <<39500000, -82101300>>

\* further points of the named routes: the other corners of a block, two
\* points a few feet east of the centre, a corner of the bounds
PC == <<39330200, -82099300>>
PD == <<39329200, -82099300>>
PA3 == <<39329200, -82101297>>
PA8 == <<39329200, -82101292>>
PEdge == <<bounds.min_lat, bounds.min_lon>>

WpPoints == {PA, PB, PX}

\* a closed loop of five waypoints
Loop5 == <<PA, PB, PC, PD, PA>>
\* a back-and-forth path whose ends are close
Zigzag5 == <<PA, PC, PA, PC, PB>>
\* waypoints a few feet apart
Tiny4 == <<PA, PA3, PA8, PB>>
\* ten waypoints, the last three outside the bounds
Line10 == [i \in 1..10 |-> IF i <= 7 THEN <<center[1] + 1000 * i, center[2]>>
                           ELSE <<PX[1] + 1000 * i, PX[2]>>]

\* out along a meridian and most of the way back: direct / path is a little
\* under 0.25
Weave3 == <<PA, <<PA[1] + 10000, PA[2]>>, <<PA[1] + 3994, PA[2]>>>>
\* five waypoints at one place
Still5 == <<PA, PA, PA, PA, PA>>
\* four waypoints: one on a corner of the bounds, one outside them
Fence4 == <<PA, PEdge, PB, PX>>

NamedRoutes == {Loop5, Zigzag5, Tiny4, Line10, Weave3, Still5, Fence4}

WaypointFields ==
    {Absent} \cup {Has(w) : w \in SeqsUpTo(WpPoints, MaxWp) \cup NamedRoutes}

\* total_distance: absent, "", "n/a", "0.07", "0.35 mi", "2 miles"
DistanceFields ==
    {Absent, Has(<<>>), Has(<<"n", "/", "a">>), Has(<<"0", ".", "0", "7">>),
     Has(<<"0", ".", "3", "5", " ", "m", "i">>),
     Has(<<"2", " ", "m", "i", "l", "e", "s">>)}

\* estimated_time: absent, "", "soon", "1", "4 min", "40 min"
TimeFields ==
    {Absent, Has(<<>>), Has(<<"s", "o", "o", "n">>), Has(<<"1">>),
     Has(<<"4", " ", "m", "i", "n">>), Has(<<"4", "0", " ", "m", "i", "n">>)}

\* route_description: absent, "", a text
DescriptionFields == {Absent, Has(<<>>), Has(<<"a", " ", "w", "a", "l", "k">>)}

\* points_of_interest and local_events: absent, [], a list of one string
ListFields(item) == {Absent, Has(<<>>), Has(<<item>>)}

Route(w, d, t, desc, poi, ev) ==
    [waypoints |-> w, total_distance |-> d, estimated_time |-> t,
     route_description |-> desc, points_of_interest |-> poi,
     local_events |-> ev]

NoRoute == Route(Absent, Absent, Absent, Absent, Absent, Absent)

\* The routes of the model: every waypoint list under three sets of claims,
\* and every combination of claimed texts, and of optional fields, on three
\* waypoint lists.
CoreWaypoints == {Has(<<PA, PB>>), Has(Loop5), Has(<<PA, PX, PB>>)}

Routes ==
    {Route(w, Has(<<"0", ".", "0", "7">>), Has(<<"1">>),
           Has(<<"a", " ", "w", "a", "l", "k">>),
           Has(<<"Court Street">>), Has(<<"Farmers Market">>)) :
        w \in WaypointFields}
    \cup {Route(w, Absent, Absent, Absent, Absent, Absent) : w \in WaypointFields}
    \cup {Route(w, Has(<<"n", "/", "a">>), Has(<<"4", "0", " ", "m", "i", "n">>),
                Absent, Has(<<"Court Street">>), Has(<<>>)) :
            w \in WaypointFields}
    \cup {Route(w, d, t, Absent, Absent, Has(<<"Farmers Market">>)) :
            w \in CoreWaypoints, d \in DistanceFields, t \in TimeFields}
    \cup {Route(w, Has(<<"0", ".", "3", "5", " ", "m", "i">>), Has(<<"4", " ", "m", "i", "n">>),
                desc, poi, ev) :
            w \in CoreWaypoints, desc \in DescriptionFields,
            poi \in ListFields("Court Street"),
            ev \in ListFields("Farmers Market")}

\* Event records as fetch_real_events and geocode_events leave them in
\* events.json: the name comes from the language model's answer and may be
\* missing, and lat, lon and geocoded depend on the geocoder's answer.
Event(name, geocoded, lat, lon) ==
    [name |-> name, geocoded |-> geocoded, lat |-> lat, lon |-> lon]

\* geocoded 0.1 mile north of the centre
EvNear == Event(Has(1), Has(TRUE), Has(39330647), Has(-82101300))
\* geocoded 5 miles north of the centre
EvFar == Event(Has(2), Has(TRUE), Has(39401565), Has(-82101300))
\* geocoded, but the record has no name
EvNoName == Event(Absent, Has(TRUE), Has(39330647), Has(-82101300))
\* geocoding failed
EvFailed == Event(Has(3), Has(FALSE), Absent, Absent)
\* geocoded on the equator: lat = 0.0
EvZeroLat == Event(Has(4), Has(TRUE), Has(0), Has(-82101300))

EventRecords == {EvNear, EvFar, EvNoName, EvFailed, EvZeroLat}

EventLists == SeqsUpTo(EventRecords, MaxEvents)

\* Inputs of the concurrent calls.
\* geocoded at the centre, and 1 degree of latitude north of it
EvHere == Event(Has(5), Has(TRUE), Has(center[1]), Has(center[2]))
EvNorth == Event(Has(6), Has(TRUE), Has(center[1] + 1000000), Has(center[2]))

\* one event 0.1 mile from the route and one 5 miles away; one event on the
\* route and one 1 degree north; one event, far away
CallEventLists == {<<EvNear, EvFar>>, <<EvHere, EvNorth>>, <<EvFar>>}

\* 0.07 mile south of the centre
PS == <<39328200, -82101300>>

\* a route that cites an event; it ends at the centre, coming from the south
CitingRoute ==
    Route(Has(<<PS, PA>>), Has(<<"0", ".", "0", "7">>), Has(<<"1">>),
          Absent, Absent, Has(<<"Farmers Market">>))

\* routes that differ from it in optional descriptive fields only: nothing
\* cited; nothing cited and a description; nothing cited and the two fields
\* no check reads
PlainRoute == [CitingRoute EXCEPT !.local_events = Absent]

DescribedRoute ==
    [PlainRoute EXCEPT !.route_description = Has(<<"a", " ", "w", "a", "l", "k">>)]

SurfacedRoute ==
    [f \in DOMAIN PlainRoute \cup {"surface_types", "accessibility"} |->
        IF f \in DOMAIN PlainRoute THEN PlainRoute[f] ELSE Has(<<"paved">>)]

\* a route of one waypoint
OnePointRoute == [CitingRoute EXCEPT !.waypoints = Has(<<PA>>)]

CallRoutes ==
    {CitingRoute, PlainRoute, DescribedRoute, SurfacedRoute, OnePointRoute}

\* the routes and the events of the calls that run concurrently
ConcurrentRoutes == {CitingRoute, PlainRoute, OnePointRoute}

ConcurrentEventLists == {<<EvNear, EvFar>>}

\* ------------------------------------------------------------------------
\* score_route step by step, for calls that run concurrently on one
\* evaluator.  A call's record holds its locals: route_data, the checks put
\* in report['checks'] so far, and its outcome once it is done.  `store` is
\* the content of events.json when the call started, and `overlapped` tells
\* whether another call was running at some time during this one.
\* ------------------------------------------------------------------------
Threads == 1..MaxThreads

NoFile == [status |-> "missing", events |-> <<>>]

IdleCall ==
    [pc |-> "idle", route |-> NoRoute, store |-> NoFile, checks |-> <<>>,
     overlapped |-> FALSE, raised |-> FALSE, score |-> 0, report |-> EmptyReport]

\* the report of the critical failure
FatalReport ==
    [EmptyReport EXCEPT
        !.warnings = <<Msg("CRITICAL: No valid waypoints found", <<>>)>>,
        !.summary = "Route failed - no waypoints"]

\* a call with its outcome
Done(call, outcome) ==
    [call EXCEPT !.pc = "done", !.raised = outcome.raised,
                 !.score = outcome.score, !.report = outcome.report]

\* score_route up to the critical-failure test
StartedCall(route_data, file) ==
    LET call == [IdleCall EXCEPT !.pc = "running", !.route = route_data,
                                 !.store = file]
        waypoints == Get(route_data.waypoints, <<>>)
    IN  IF waypoints = <<>> \/ Len(waypoints) < 2
        THEN Done(call, Returned(FatalReport))
        ELSE call

\* the five checks, Completeness called again in place of Geofence
CheckAtMixedUp(route_data, waypoints, k) ==
    CASE k = 1 -> Check("completeness", check_completeness(route_data))
      [] k = 2 -> Check("waypoint_quality", check_waypoint_quality(waypoints))
      [] k = 3 -> Check("geofence", check_completeness(route_data))
      [] k = 4 -> Check("route_efficiency", check_efficiency(waypoints))
      [] k = 5 -> Check("speed_sanity", check_speed(route_data, waypoints))

\* the k-th of the five checks that precede Event Proximity
CheckAt(route_data, waypoints, k) ==
    CASE k = 1 -> Check("completeness", check_completeness(route_data))
      [] k = 2 -> Check("waypoint_quality", check_waypoint_quality(waypoints))
      [] k = 3 -> Check("geofence", check_geofence(waypoints))
      [] k = 4 -> Check("route_efficiency", check_efficiency(waypoints))
      [] k = 5 -> Check("speed_sanity", check_speed(route_data, waypoints))

\* the next line of "Run all checks"; Event Proximity reads events.json and
\* may raise
NextCheck(call, file) ==
    LET waypoints == Get(call.route.waypoints, <<>>)
        k == Len(call.checks) + 1
    IN  IF k <= 5
        THEN [call EXCEPT !.checks = Append(@, CheckAt(call.route, waypoints, k))]
        ELSE Bind1(check_event_proximity(call.route, waypoints, file),
                   LAMBDA ep :
                     IF ep.raised
                     THEN Done(call, Raised([EmptyReport EXCEPT
                                                !.checks = call.checks]))
                     ELSE [call EXCEPT !.checks =
                              Append(@, Check("event_proximity", ep.result))])

\* the total, the warnings, the summary, and the return
ReturnedCall(call) == Done(call, Returned(Aggregate(call.checks)))

\* ------------------------------------------------------------------------
\* State
\* ------------------------------------------------------------------------
VARIABLES
    file,      \* events.json: [status, events]
    pc,        \* "idle", or "shown" once a chat request has been handled
    route,     \* the route_data of the request
    raised,    \* TRUE when score_route raised
    score,     \* the score it returned
    report,    \* the report it returned
    display,   \* the banner the chat shows
    saved,     \* what the handler added to the session's routes and map
    calls      \* the score_route calls of the threads sharing an evaluator

vars == <<file, pc, route, raised, score, report, display, saved, calls>>

\* the state of the chat handler
chat == <<pc, route, raised, score, report, display, saved>>

Init ==
    /\ file = [status |-> "missing", events |-> <<>>]
    /\ pc = "idle"
    /\ route = NoRoute
    /\ raised = FALSE
    /\ score = 0
    /\ report = EmptyReport
    /\ display = NoDisplay
    /\ saved = NotSaved
    /\ calls = [t \in Threads |-> IdleCall]

\* save_events_to_file: the refreshed events replace the file.  The store
\* is taken not to change while a score_route call is running.
SaveEvents(events) ==
    /\ pc = "idle"
    /\ \A t \in Threads : calls[t].pc \in {"idle", "done"}
    /\ file' = [status |-> "ok", events |-> events]
    /\ UNCHANGED <<chat, calls>>

\* The file stops being loadable: it is deleted, it loses its read
\* permission (its contents stay), or its contents stop being valid JSON.
FileFails(kind) ==
    /\ pc = "idle"
    /\ file.status = "ok"
    /\ file' = [status |-> kind,
                events |-> IF kind = "unreadable" THEN file.events ELSE <<>>]
    /\ UNCHANGED <<chat, calls>>

\* The chat handles a route request: score_route, then the banner, then the
\* route is added to the session's routes and the map is centred on its
\* first waypoint.  When score_route raises, the exception leaves the
\* handler: nothing is shown and nothing is saved.
ChatRouteRequest(route_data) ==
    /\ pc = "idle"
    /\ \E res \in {score_route(route_data, file)} :
           /\ raised' = res.raised
           /\ score' = res.score
           /\ report' = res.report
           /\ display' = IF res.raised THEN NoDisplay
                         ELSE Display(res.score, res.report)
           /\ saved' = IF res.raised THEN NotSaved ELSE SaveRoute(route_data)
    /\ route' = route_data
    /\ pc' = "shown"
    /\ UNCHANGED <<file, calls>>

\* The script run ends: the handler's locals are gone, and `saved` starts
\* empty for the next run (the session's routes only grow)
NextRun ==
    /\ pc = "shown"
    /\ pc' = "idle"
    /\ route' = NoRoute
    /\ raised' = FALSE
    /\ score' = 0
    /\ report' = EmptyReport
    /\ display' = NoDisplay
    /\ saved' = NotSaved
    /\ UNCHANGED <<file, calls>>

\* A thread calls score_route on the shared evaluator
CallStart(t, route_data) ==
    /\ calls[t].pc \in {"idle", "done"}
    /\ LET others == {u \in Threads \ {t} : calls[u].pc = "running"}
       IN  calls' = [u \in Threads |->
                       IF u = t
                       THEN [StartedCall(route_data, file) EXCEPT
                                !.overlapped = others # {}]
                       ELSE IF u \in others
                       THEN [calls[u] EXCEPT !.overlapped = TRUE]
                       ELSE calls[u]]
    /\ UNCHANGED <<file, chat>>

\* A call made while no other call is running
CallStartAlone(t, route_data) ==
    /\ \A u \in Threads : calls[u].pc # "running"
    /\ CallStart(t, route_data)

\* the call's next check reads events.json as an earlier call left it in a
\* cache, when there is one
CallCheckCached(t) ==
    /\ calls[t].pc = "running"
    /\ Len(calls[t].checks) < 6
    /\ LET earlier == {u \in Threads : calls[u].pc = "done"}
           cached == IF earlier = {} THEN file
                     ELSE calls[CHOOSE u \in earlier : TRUE].store
       IN  calls' = [calls EXCEPT ![t] = NextCheck(calls[t], cached)]
    /\ UNCHANGED <<file, chat>>

\* the call's next check fills in a default in the route it was given
CallCheckDefaulting(t) ==
    /\ calls[t].pc = "running"
    /\ Len(calls[t].checks) < 6
    /\ calls' = [calls EXCEPT ![t] =
                    [NextCheck(calls[t], file) EXCEPT
                        !.route.local_events = Has(Get(@, <<>>))]]
    /\ UNCHANGED <<file, chat>>

\* the call's next check stores its result in a report the running calls
\* share
CallCheckShared(t) ==
    /\ calls[t].pc = "running"
    /\ Len(calls[t].checks) < 6
    /\ \E after \in {NextCheck(calls[t], file)} :
          calls' = [u \in Threads |->
                      IF u = t THEN after
                      ELSE IF calls[u].pc = "running"
                      THEN [calls[u] EXCEPT !.checks = after.checks]
                      ELSE calls[u]]
    /\ UNCHANGED <<file, chat>>

\* The call runs its next check
CallCheck(t) ==
    /\ calls[t].pc = "running"
    /\ Len(calls[t].checks) < 6
    /\ calls' = [calls EXCEPT ![t] = NextCheck(calls[t], file)]
    /\ UNCHANGED <<file, chat>>

\* The call sums the scores and returns
CallReturn(t) ==
    /\ calls[t].pc = "running"
    /\ Len(calls[t].checks) = 6
    /\ calls' = [calls EXCEPT ![t] = ReturnedCall(calls[t])]
    /\ UNCHANGED <<file, chat>>

Next ==
    \/ \E events \in EventLists : SaveEvents(events)
    \/ \E kind \in {"missing", "unreadable", "invalid"} : FileFails(kind)
    \/ \E route_data \in Routes : ChatRouteRequest(route_data)
    \/ NextRun

Spec == Init /\ [][Next]_vars

\* Threads calling score_route on one evaluator concurrently, the events
\* refreshed between calls
NextCalls ==
    \/ \E events \in ConcurrentEventLists : SaveEvents(events)
    \/ \E t \in Threads, route_data \in ConcurrentRoutes : CallStart(t, route_data)
    \/ \E t \in Threads : CallCheck(t)
    \/ \E t \in Threads : CallReturn(t)

SpecCalls == Init /\ [][NextCalls]_vars

\* Calls made one at a time, the events refreshed between calls; the record
\* of a call is kept until its thread calls again
NextSerial ==
    \/ \E events \in CallEventLists : SaveEvents(events)
    \/ \E t \in Threads, route_data \in CallRoutes : CallStartAlone(t, route_data)
    \/ \E t \in Threads : CallCheck(t)
    \/ \E t \in Threads : CallReturn(t)

SpecSerial == Init /\ [][NextSerial]_vars

\* _check_efficiency and _check_speed from the distances and the claimed
\* numbers on, for the distances and numbers right at the limits of their
\* bands.  Distances are in 1e-5 mile, claimed numbers in thousandths; the
\* numbers offered are ones whose double-precision quotients lie on the
\* same side of every limit as the exact quotients do.
PathDistances == {0, 20000, 100000}
DirectDistances == {0, 17000, 17001, 20000, 24999, 25000}

\* a path is at least as long as the straight line between its ends
EfficiencyInputs ==
    {<<path_distance, direct_distance>> \in PathDistances \X DirectDistances :
        direct_distance <= path_distance}

ClaimedDistances == {0, 1000, 1499, 1500, 4500, 4501, 6000, 6001}
ClaimedTimes == {0, 30000, 60000}
ActualDistances == {49999, 50000, 79999, 80000, 100000, 150000, 150001}

\* the report with one check in it
ReportOf(id, result) == [EmptyReport EXCEPT !.checks = <<Check(id, result)>>]

\* the body of _check_efficiency after the two distances are computed
EfficiencyOf(path_distance, direct_distance) ==
    /\ pc' = "checked"
    /\ report' = ReportOf("route_efficiency",
                          EfficiencyResult(path_distance, direct_distance))
    /\ UNCHANGED <<file, route, raised, score, display, saved, calls>>

\* the body of _check_speed after the claimed numbers are parsed and the
\* path distance is computed
SpeedOf(claimed_distance, claimed_time, actual_distance) ==
    /\ pc' = "checked"
    /\ report' = ReportOf("speed_sanity",
                          SpeedResult(claimed_distance, claimed_time,
                                      actual_distance))
    /\ UNCHANGED <<file, route, raised, score, display, saved, calls>>

NextBands ==
    \/ \E input \in EfficiencyInputs : EfficiencyOf(input[1], input[2])
    \/ \E claimed_distance \in ClaimedDistances, claimed_time \in ClaimedTimes,
          actual_distance \in ActualDistances :
            SpeedOf(claimed_distance, claimed_time, actual_distance)

SpecBands == Init /\ [][NextBands]_vars

\* ------------------------------------------------------------------------
\* Properties
\* ------------------------------------------------------------------------
\* the waypoints score_route reads from the request's route
Waypoints == Get(route.waypoints, <<>>)

\* a request was handled with a route of at least 2 waypoints ...
NonFatalCall == pc = "shown" /\ Len(Waypoints) >= 2

\* ... and score_route returned
NonFatal == NonFatalCall /\ ~raised

\* a request was handled whose route has no waypoints field, an empty one,
\* or a single waypoint
Fatal == pc = "shown" /\ Len(Waypoints) < 2

CheckIds == [i \in DOMAIN report.checks |-> report.checks[i].id]

ScoreOf(i) == report.checks[i].result.score

WarningsIn(i) == report.checks[i].result.warnings

\* the sum of the six check scores of the report, in tenths
ScoreSum == ScoreOf(1) + ScoreOf(2) + ScoreOf(3) + ScoreOf(4) + ScoreOf(5) + ScoreOf(6)

\* C1: for every route with at least 2 waypoints the returned total_score
\* is between 0 and 100.
C1_ScoreBound ==
    NonFatal => /\ 0 <= score /\ score <= 100
                /\ report.total_score = score

\* a route of at least 2 waypoints scored 90 or more
C1_Witness == NonFatal /\ score >= 90

\* C2: with waypoints absent, empty or a single point, score_route returns
\* score 0, the one critical warning, and no check results.
C2_FatalPath ==
    Fatal => /\ ~raised
             /\ score = 0
             /\ report.total_score = 0
             /\ report.warnings = <<Msg("CRITICAL: No valid waypoints found", <<>>)>>
             /\ report.checks = <<>>

\* a route of exactly one waypoint was handled
C2_Witness == Fatal /\ Len(Waypoints) = 1 /\ report.warnings # <<>>

\* C3: for a route with at least 2 waypoints the report holds the results
\* of the six checks, once each, in the fixed evaluation order, whatever the
\* outcome of any of them.
C3_SixChecks ==
    NonFatal => CheckIds = <<"completeness", "waypoint_quality", "geofence",
                             "route_efficiency", "speed_sanity", "event_proximity">>

\* all six are there although Completeness warned, Geofence scored 0 and
\* Speed Sanity scored 0
C3_Witness ==
    /\ NonFatal
    /\ Len(report.checks) = 6
    /\ WarningsIn(1) # <<>>
    /\ ScoreOf(3) = 0
    /\ ScoreOf(5) = 0

\* C4 as claimed: total_score is the sum of the six scores rounded to the
\* nearest integer (within half a point of the sum), clamped to [0, 100].
C4_RoundedToNearest ==
    NonFatal => /\ 0 <= report.total_score /\ report.total_score <= 100
                /\ Abs(10 * report.total_score - ScoreSum) <= 5

\* C4 amended: total_score is the sum of the six scores truncated to an
\* integer (the largest integer not above the sum, the sum being >= 0);
\* no clamp is applied and none is needed, the sum lying in [0, 100].
C4_Truncated ==
    NonFatal => /\ 0 <= ScoreSum /\ ScoreSum <= 1000
                /\ 10 * report.total_score <= ScoreSum
                /\ ScoreSum < 10 * report.total_score + 10
                /\ score = report.total_score

\* a sum whose fraction is above one half: truncation and rounding differ
C4_Witness == NonFatal /\ ScoreSum % 10 > 5

\* the band of an integer score, inclusive lower bounds
BandOf(n) ==
    IF n >= 80 THEN "Good quality route"
    ELSE IF n >= 60 THEN "Acceptable route with some issues"
    ELSE IF n >= 40 THEN "Poor quality route - review warnings"
    ELSE "Low quality route - significant issues"

LevelOf(summary) ==
    CASE summary = "Good quality route" -> "success"
      [] summary = "Acceptable route with some issues" -> "info"
      [] summary = "Poor quality route - review warnings" -> "warning"
      [] OTHER -> "error"

\* C5: report.summary is the band of the returned integer score, and the
\* banner level the chat picks from that score is the level of that band.
C5_SummaryAgrees ==
    NonFatal => /\ report.summary = BandOf(score)
                /\ display.summary = report.summary
                /\ display.level = LevelOf(report.summary)

\* a score exactly on a band's lower bound
C5_Witness ==
    /\ NonFatal
    /\ score = 80
    /\ report.summary = "Good quality route"
    /\ display.level = "success"

\* C6: every check result has max equal to the check's weight and a score
\* between 0 and max.
C6_CheckBounds ==
    NonFatal =>
        \A i \in DOMAIN report.checks :
            /\ report.checks[i].result.max = weights[report.checks[i].id]
            /\ 0 <= ScoreOf(i)
            /\ ScoreOf(i) <= 10 * report.checks[i].result.max

\* Waypoint Quality floored at 0 (two equal waypoints: base 0.2, less 0.1
\* for the duplicate, less 0.2 for the tiny gap) beside a check at its max
C6_Witness ==
    /\ NonFatal
    /\ Len(report.checks) = 6
    /\ ScoreOf(2) = 0
    /\ Len(WarningsIn(2)) = 3
    /\ ScoreOf(3) = 10 * weights.geofence

\* C7: the max values of the checks of the report sum to 100.
C7_MaxSum ==
    NonFatal =>
        /\ Len(report.checks) = 6
        /\ report.checks[1].result.max + report.checks[2].result.max
             + report.checks[3].result.max + report.checks[4].result.max
             + report.checks[5].result.max + report.checks[6].result.max = 100
        /\ report.max_score = 100

\* a low-scoring route: the max values do not follow the scores
C7_Witness == NonFatal /\ Len(report.checks) = 6 /\ score < 40

\* C8: report.warnings is the concatenation of the six checks' warnings in
\* evaluation order.
C8_WarningsConcatenated ==
    NonFatal =>
        report.warnings = WarningsIn(1) \o WarningsIn(2) \o WarningsIn(3)
                            \o WarningsIn(4) \o WarningsIn(5) \o WarningsIn(6)

\* warnings from three different checks, one of them with two warnings
C8_Witness ==
    /\ NonFatal
    /\ Len(report.checks) = 6
    /\ Len(WarningsIn(1)) >= 2
    /\ WarningsIn(2) # <<>>
    /\ WarningsIn(6) # <<>>

\* C9: score_route never raises for a route of at least 2 waypoints,
\* whatever the other fields and the event records hold.
C9_NeverRaises == NonFatalCall => ~raised

\* C10: when events.json cannot be loaded (missing, unreadable, invalid),
\* the event list is empty: Event Proximity awards half its weight with no
\* warning, and score_route returns.
C10_LoadFailureNeutral ==
    (NonFatalCall /\ file.status # "ok") =>
        /\ ~raised
        /\ Len(report.checks) = 6
        /\ report.checks[6].id = "event_proximity"
        /\ 2 * ScoreOf(6) = 10 * weights.event_proximity
        /\ WarningsIn(6) = <<>>
        /\ report.checks[6].result.details =
               <<Msg("No geocoded events to verify against", <<>>)>>

\* the file holds geocoded events but cannot be read, and the route cites
\* an event
C10_Witness ==
    /\ NonFatal
    /\ file.status = "unreadable"
    /\ \E i \in DOMAIN file.events : IsGeocoded(file.events[i])
    /\ Truthy(route.local_events)
    /\ Len(report.checks) = 6
    /\ ScoreOf(6) = 125

\* what a call returned, or that it raised
Outcome(call) == [raised |-> call.raised, score |-> call.score, report |-> call.report]

\* a call's record without the note of overlapping calls
Locals(call) == [call EXCEPT !.overlapped = FALSE]

DoneCalls == {t \in Threads : calls[t].pc = "done"}

\* C11: the outcome of a score_route call is a function of the route and of
\* the content of the event store at the time of the call: finished calls
\* with the same route and the same store content have the same outcome, and
\* whatever calls and store updates came before, a call's outcome is the one
\* its own route and store content determine.
C11_FunctionOfInputs ==
    /\ \A t, u \in DoneCalls :
          (calls[t].route = calls[u].route /\ calls[t].store = calls[u].store)
              => Outcome(calls[t]) = Outcome(calls[u])
    /\ \A t \in DoneCalls :
          Outcome(calls[t]) = score_route(calls[t].route, calls[t].store)

\* two finished calls with the same route, one made before and one after a
\* store update that changes the score; the later one saw the present store
C11_Witness ==
    /\ DoneCalls = {1, 2}
    /\ calls[1].route = calls[2].route
    /\ calls[1].store # calls[2].store
    /\ calls[2].store = file
    /\ calls[1].score # calls[2].score

\* C12: a step of a score_route call leaves events.json and the route it was
\* given unchanged (the evaluator's configuration is never assigned after
\* construction: it is the constants center, bounds, weights, min_walk_speed
\* and max_walk_speed); it only adds to the call's own results.
C12_Frame ==
    [][(calls' # calls) =>
          /\ file' = file
          /\ \A t \in Threads :
                calls[t].pc = "running" => calls'[t].route = calls[t].route]_vars

\* a finished call on a route without local_events, the store holding events
C12_Witness ==
    \E t \in DoneCalls :
        /\ calls[t].route = PlainRoute
        /\ Len(calls[t].report.checks) = 6
        /\ file.events # <<>>
        /\ calls[t].store = file

\* C13: whatever the other threads' calls do in between, a call that returns
\* returns what score_route gives for its route and the event store alone,
\* and no step of a call touches another call.
C13_Reentrant ==
    [][\A t \in Threads :
          /\ (calls[t].pc = "running" /\ calls'[t].pc = "done")
                => Outcome(calls'[t]) = score_route(calls[t].route, file)
          /\ Locals(calls'[t]) # Locals(calls[t])
                => \A u \in Threads \ {t} : Locals(calls'[u]) = Locals(calls[u])]_vars

\* two calls on different routes returned, each having run while the other
\* was running
C13_Witness ==
    /\ DoneCalls = {1, 2}
    /\ calls[1].overlapped /\ calls[2].overlapped
    /\ calls[1].route # calls[2].route
    /\ Len(calls[1].report.checks) = 6
    /\ Len(calls[2].report.checks) = 6
    /\ calls[1].score # calls[2].score

\* the four quality bands
Bands ==
    {"Good quality route", "Acceptable route with some issues",
     "Poor quality route - review warnings",
     "Low quality route - significant issues"}

\* C14 as claimed: the summary of every returned report is one of the four
\* band strings.
C14_SummaryIsBand == (pc = "shown" /\ ~raised) => report.summary \in Bands

\* C14 amended: the summary is one of the four band strings when the six
\* checks ran; on the fatal path it is "Route failed - no waypoints", which
\* is none of the four.
C14_SummaryIsBandOrFailure ==
    /\ NonFatal => report.summary \in Bands
    /\ (Fatal /\ ~raised) =>
          /\ report.summary = "Route failed - no waypoints"
          /\ report.summary \notin Bands

\* a report of the fatal path, for a route with an empty waypoint list
C14_Witness ==
    /\ Fatal
    /\ ~raised
    /\ route.waypoints = Has(<<>>)
    /\ report.summary = "Route failed - no waypoints"

\* the lines "PASS: name - d mi from route" and "MISS: ..." of a check result
EventLines(result) ==
    SelectSeq(result.details, LAMBDA line : line.kind \in {"PASS", "MISS"})

\* the Event Proximity result of a finished call that ran the six checks
ProximityOf(call) == call.report.checks[6].result

\* finished calls that ran the six checks
ScoredCalls == {t \in DoneCalls : ~calls[t].raised /\ Len(calls[t].report.checks) = 6}

\* C15: haversine_distance of a coordinate and itself is 0, and from the
\* centre (39.3292, -82.1013) to the point 1 degree of latitude north it is
\* 69 miles within 1%.  The distances are those of the detail lines of
\* Event Proximity, for a route whose nearest waypoint to both events is the
\* centre: event 5 lies at the centre, event 6 one degree north of it.
C15_Haversine ==
    \A t \in ScoredCalls :
        \A i \in DOMAIN EventLines(ProximityOf(calls[t])) :
            LET line == EventLines(ProximityOf(calls[t]))[i]
                waypoints == calls[t].route.waypoints[1]
            IN  (waypoints[Len(waypoints)] = center /\ waypoints[1][1] <= center[1]) =>
                   /\ line.args[1] = 5 => line.args[2] = 0
                   /\ line.args[1] = 6 =>
                         Abs(line.args[2] - 6900000) <= 69000

\* a call whose report has the two distances
C15_Witness ==
    \E t \in ScoredCalls :
        /\ calls[t].route = CitingRoute
        /\ calls[t].store.events = <<EvHere, EvNorth>>
        /\ Len(EventLines(ProximityOf(calls[t]))) = 2
        /\ EventLines(ProximityOf(calls[t]))[1].kind = "PASS"
        /\ EventLines(ProximityOf(calls[t]))[2].kind = "MISS"

\* the stored events with geocoded = true and both coordinates present
StoredGeocoded ==
    SelectSeq(load_events(file),
              LAMBDA e : e.geocoded = Has(TRUE) /\ e.lat # Absent /\ e.lon # Absent)

\* the route cites an event or a point of interest
Cites == Truthy(route.local_events) \/ Truthy(route.points_of_interest)

\* C16: the events that take part in Event Proximity, and form its
\* denominator, are the stored events with geocoded = true and both lat and
\* lon present, whatever the coordinates are: with none of them the check is
\* neutral, otherwise there is one PASS or MISS line for each.
C16_GeocodedParticipate ==
    (NonFatal /\ Cites) =>
        IF StoredGeocoded = <<>>
        THEN report.checks[6].result.details =
                <<Msg("No geocoded events to verify against", <<>>)>>
        ELSE Len(EventLines(report.checks[6].result)) = Len(StoredGeocoded)

\* the three required fields of a route
RequiredPart(r) == <<r.waypoints, r.total_distance, r.estimated_time>>

\* the fields Event Proximity looks at to see whether the route cites events
CitedPart(r) == <<Truthy(r.local_events), Truthy(r.points_of_interest)>>

\* the results of the checks k..6 of a call
ChecksFrom(call, k) == SubSeq(call.report.checks, k, 6)

\* C17 as claimed: two routes that differ in optional descriptive fields
\* only, scored against the same event store, differ in Completeness only.
C17_OnlyCompleteness ==
    \A t, u \in ScoredCalls :
        (/\ RequiredPart(calls[t].route) = RequiredPart(calls[u].route)
         /\ calls[t].store = calls[u].store)
            => ChecksFrom(calls[t], 2) = ChecksFrom(calls[u], 2)

\* C17 amended: such routes have the same Waypoint Quality, Geofence, Route
\* Efficiency and Speed Sanity results; Event Proximity is the same as well
\* when both routes cite something or both cite nothing (points_of_interest
\* and local_events decide between the neutral credit and the proximity
\* score); surface_types and accessibility change no result at all.
C17_CompletenessAndProximity ==
    \A t, u \in ScoredCalls :
        (/\ RequiredPart(calls[t].route) = RequiredPart(calls[u].route)
         /\ calls[t].store = calls[u].store)
            => /\ SubSeq(calls[t].report.checks, 2, 5)
                    = SubSeq(calls[u].report.checks, 2, 5)
               /\ CitedPart(calls[t].route) = CitedPart(calls[u].route)
                    => ChecksFrom(calls[t], 2) = ChecksFrom(calls[u], 2)
               /\ (calls[t].route = PlainRoute /\ calls[u].route = SurfacedRoute)
                    => Outcome(calls[t]) = Outcome(calls[u])

\* against the same store with a far event: a citing and a plain route with
\* different Event Proximity results
C17_Witness ==
    /\ ScoredCalls = {1, 2}
    /\ calls[1].route = CitingRoute
    /\ calls[2].route = DescribedRoute
    /\ calls[1].store = calls[2].store
    /\ calls[1].store.events = <<EvFar>>
    /\ ProximityOf(calls[1]).score # ProximityOf(calls[2]).score

\* C18: on the fatal path the chat does not show the route under the lowest
\* band's banner, adds nothing to the session's routes and does not move the
\* map center.
C18_CannotEvaluate ==
    Fatal => /\ display.level # "error"
             /\ saved.added = <<>>
             /\ saved.center = <<>>

\* the PASS lines of a check result
PassLines(result) ==
    SelectSeq(result.details, LAMBDA line : line.kind = "PASS")

\* C19: with at least one stored geocoded event and a route that cites
\* something, score_route returns; each geocoded event has a line, PASS iff
\* its distance is at most 0.2 mile; the score is passed / total * weight;
\* the warning is there exactly when nothing is passed.
C19_ProximityScore ==
    (NonFatalCall /\ Cites /\ StoredGeocoded # <<>>) =>
        /\ ~raised
        /\ LET result == report.checks[6].result
               total == Len(StoredGeocoded)
               passed == Len(PassLines(result))
           IN  /\ Len(EventLines(result)) = total
               /\ \A i \in DOMAIN EventLines(result) :
                     EventLines(result)[i].kind = "PASS"
                        <=> EventLines(result)[i].args[2] <= 20000
               /\ result.score * total = passed * 10 * weights.event_proximity
               /\ (result.warnings # <<>>) <=> (passed = 0)

\* C20: without stored geocoded events, or with a route that cites neither
\* events nor points of interest, score_route returns and Event Proximity
\* awards exactly half its weight and warns of nothing.
C20_NeutralCredit ==
    (NonFatalCall /\ (StoredGeocoded = <<>> \/ ~Cites)) =>
        /\ ~raised
        /\ report.checks[6].id = "event_proximity"
        /\ 2 * report.checks[6].result.score = 10 * weights.event_proximity
        /\ report.checks[6].result.warnings = <<>>

\* a route far from the one stored event that cites nothing, and a citing
\* route against a store whose events all failed geocoding
C20_Witness ==
    /\ NonFatal
    /\ file.status = "ok"
    /\ \/ file.events = <<EvFar>> /\ ~Cites /\ route.waypoints = Has(<<PA, PB>>)
       \/ file.events = <<EvFailed>> /\ Cites
    /\ report.checks[6].result.score = 125

\* the arguments of the line of a kind among details or warnings
ArgsOf(lines, kind) ==
    lines[CHOOSE i \in DOMAIN lines : lines[i].kind = kind].args

HasLine(lines, kind) == \E i \in DOMAIN lines : lines[i].kind = kind

\* the Route Efficiency result of the report shown, and the path and
\* straight-line distances it records
Efficiency == report.checks[4].result

RoutePath == ArgsOf(Efficiency.details, "Path distance")[1]

RouteDirect == ArgsOf(Efficiency.details, "Direct distance")[1]

\* the route shown is not a closed loop and direct / path is below 0.25
Zigzagging == NonFatal /\ RouteDirect > 0 /\ 4 * RouteDirect < RoutePath

\* C21, as stated: for a route with ratio = direct_distance / path_distance
\* below 0.25 the Route Efficiency score is exactly (ratio / 0.25) * 0.6 *
\* weight, it is strictly below 0.6 * weight, and the zigzag warning is
\* emitted.  (Scores are in tenths: score / 10 = 2.4 * max * direct / path.)
C21_ZigzagExact ==
    Zigzagging =>
        /\ Efficiency.score * RoutePath = 24 * Efficiency.max * RouteDirect
        /\ Efficiency.score < 6 * Efficiency.max
        /\ HasLine(Efficiency.warnings, "Route appears to zigzag excessively")

\* C21, amended: for a route with ratio below 0.25 the Route Efficiency
\* score is (ratio / 0.25) * 0.6 * weight rounded to one decimal, which is at
\* most 0.6 * weight, and the zigzag warning is the check's only warning.
C21_ZigzagRounded ==
    Zigzagging =>
        /\ 2 * Abs(Efficiency.score * RoutePath
                   - 24 * Efficiency.max * RouteDirect) <= RoutePath
        /\ Efficiency.score <= 6 * Efficiency.max
        /\ Efficiency.warnings
               = <<Msg("Route appears to zigzag excessively", <<>>)>>

\* a zigzagging route whose score rounds up to 0.6 * weight
C21_Witness == Zigzagging /\ Efficiency.score = 6 * Efficiency.max

\* the Route Efficiency result computed from two distances alone
EfficiencyAlone ==
    pc = "checked" /\ report.checks[1].id = "route_efficiency"

AloneResult == report.checks[1].result

AlonePath == ArgsOf(AloneResult.details, "Path distance")[1]

AloneDirect == ArgsOf(AloneResult.details, "Direct distance")[1]

\* C22: with ratio = direct_distance / path_distance, Route Efficiency
\* awards the full weight and no warning when 0.25 <= ratio <= 0.85, both
\* ends included, and 0.8 * weight with the detail "Route is very direct"
\* and no warning when ratio > 0.85.
C22_IdealAndDirect ==
    (EfficiencyAlone /\ AloneDirect > 0 /\ AlonePath > 0) =>
        /\ (4 * AloneDirect >= AlonePath /\ 20 * AloneDirect <= 17 * AlonePath)
              => /\ AloneResult.score = 10 * AloneResult.max
                 /\ AloneResult.warnings = <<>>
                 /\ ~HasLine(AloneResult.details, "Route is very direct")
        /\ 20 * AloneDirect > 17 * AlonePath
              => /\ AloneResult.score = 8 * AloneResult.max
                 /\ AloneResult.warnings = <<>>
                 /\ HasLine(AloneResult.details, "Route is very direct")

\* a ratio of exactly 0.85 earns the full weight
C22_Witness ==
    /\ EfficiencyAlone
    /\ AloneDirect > 0
    /\ 20 * AloneDirect = 17 * AlonePath
    /\ AloneResult.score = 10 * AloneResult.max

\* the first and the last waypoint of the route shown are at zero distance
ClosedLoop ==
    NonFatal /\ haversine_distance(Waypoints[1], Waypoints[Len(Waypoints)]) = 0

\* C23: for every route whose first and last waypoints are at zero distance
\* from each other, whatever its path length (zero included), Route
\* Efficiency uses ratio 0.5, records "Circular route detected", emits no
\* warning and scores the full weight, as the 0.25..0.85 band does.
C23_ClosedLoop ==
    ClosedLoop =>
        /\ Efficiency.details
               = <<Msg("Circular route detected", <<>>),
                   Msg("Path distance", <<PathDistance(Waypoints)>>),
                   Msg("Direct distance", <<0>>),
                   Msg("Efficiency ratio", <<1, 2>>)>>
        /\ Efficiency.warnings = <<>>
        /\ Efficiency.score = 10 * Efficiency.max

\* a closed loop whose path has no length
C23_Witness ==
    ClosedLoop /\ RoutePath = 0 /\ Efficiency.score = 10 * Efficiency.max

\* the Speed Sanity result computed from the claimed numbers and the path
\* distance alone, and the three numbers it records
SpeedAlone == pc = "checked" /\ report.checks[1].id = "speed_sanity"

AloneClaimed == ArgsOf(AloneResult.details, "Claimed distance")[1]

AloneTime == ArgsOf(AloneResult.details, "Claimed time")[1]

AloneActual == ArgsOf(AloneResult.details, "Calculated distance")[1]

\* the tenths of the weight a Speed Sanity result says its speed test
\* added, and its distance test added
SpeedShare(result) ==
    IF HasLine(result.details, "Speed is reasonable for walking") THEN 5
    ELSE IF \/ HasLine(result.details, "Speed is slow (may include stops)")
            \/ HasLine(result.warnings, "Speed is fast - jogging pace")
         THEN 3
    ELSE 0

DistanceShare(result) ==
    IF HasLine(result.details, "Distance error (acceptable)") THEN 5
    ELSE IF HasLine(result.details, "Distance error (high)") THEN 3
    ELSE 0

\* C24: with relative error = |calculated path distance - claimed
\* distance| / claimed distance, the distance-accuracy component of Speed
\* Sanity contributes 0.5 * weight when error <= 20%, 0.3 * weight when
\* 20% < error <= 50%, and 0 plus a warning naming the claimed and the
\* calculated value when error > 50%.
C24_DistanceAccuracy ==
    (SpeedAlone /\ AloneClaimed > 0) =>
        LET error == Abs(AloneActual - 100 * AloneClaimed)
            claimed == 100 * AloneClaimed
            share == AloneResult.score
                        - SpeedShare(AloneResult) * AloneResult.max
            warned == HasLine(AloneResult.warnings, "Distance mismatch")
        IN  /\ 5 * error <= claimed
                  => share = 5 * AloneResult.max /\ ~warned
            /\ (5 * error > claimed /\ 2 * error <= claimed)
                  => share = 3 * AloneResult.max /\ ~warned
            /\ 2 * error > claimed
                  => /\ share = 0
                     /\ warned
                     /\ ArgsOf(AloneResult.warnings, "Distance mismatch")
                            = <<AloneClaimed, AloneActual>>

\* an error of exactly 20% earns the half credit
C24_Witness ==
    /\ SpeedAlone
    /\ AloneClaimed > 0
    /\ 5 * Abs(AloneActual - 100 * AloneClaimed) = 100 * AloneClaimed
    /\ DistanceShare(AloneResult) = 5

\* C25: when claimed distance and claimed time are both positive, with
\* implied speed = claimed_distance / (claimed_time / 60), the speed
\* component of Speed Sanity contributes 0.5 * weight for a speed in
\* [1.5, 4.5], 0.3 * weight and no warning below 1.5, 0.3 * weight and a
\* jogging-pace warning for 4.5 < speed <= 6.0, and 0 and an
\* unrealistic-for-walking warning above 6.0; the score of the check is
\* the sum of this and the distance-accuracy component.
C25_SpeedPlausibility ==
    (SpeedAlone /\ AloneClaimed > 0 /\ AloneTime > 0) =>
        LET speed == 600 * AloneClaimed      \* 10 * speed * claimed_time
            time == AloneTime
            share == AloneResult.score
                        - DistanceShare(AloneResult) * AloneResult.max
            jogging == HasLine(AloneResult.warnings,
                               "Speed is fast - jogging pace")
            unrealistic == HasLine(AloneResult.warnings,
                                   "Speed is unrealistic for walking")
        IN  /\ (15 * time <= speed /\ speed <= 45 * time)
                  => share = 5 * AloneResult.max /\ ~jogging /\ ~unrealistic
            /\ speed < 15 * time
                  => share = 3 * AloneResult.max /\ ~jogging /\ ~unrealistic
            /\ (45 * time < speed /\ speed <= 60 * time)
                  => share = 3 * AloneResult.max /\ jogging /\ ~unrealistic
            /\ speed > 60 * time
                  => share = 0 /\ ~jogging /\ unrealistic
            /\ AloneResult.score
                  = (DistanceShare(AloneResult) + SpeedShare(AloneResult))
                        * AloneResult.max

\* a speed of exactly 4.5 miles per hour earns the half credit
C25_Witness ==
    /\ SpeedAlone
    /\ AloneTime > 0
    /\ 600 * AloneClaimed = 45 * AloneTime
    /\ SpeedShare(AloneResult) = 5

\* the Waypoint Quality result of the report shown
Quality == report.checks[2].result

\* the waypoints of the route shown whose coordinate, rounded to 5
\* decimals, an earlier waypoint has too
RepeatedWaypoints ==
    Len(Waypoints) - Cardinality({WpKey(Waypoints[i]) : i \in DOMAIN Waypoints})

\* its consecutive pairs closer than 0.001 mile
ClosePairs ==
    Cardinality({i \in 1..(Len(Waypoints) - 1) :
                   haversine_distance(Waypoints[i], Waypoints[i + 1]) < 100})

\* C26: the Waypoint Quality score is max(0, base - duplicate_penalty -
\* gap_penalty) * weight to one decimal, where base is 1.0 / 0.8 / 0.5 / 0.2
\* for 10 or more / 5 or more / 3 or more / fewer waypoints,
\* duplicate_penalty is min(duplicates * 0.1, 0.3) with duplicates the number
\* of waypoints whose 5-decimal-rounded coordinate was already seen, and
\* gap_penalty is 0.2 iff the consecutive pairs closer than 0.001 mile
\* number more than 30% of the waypoints.  (Factors and scores in tenths.)
C26_QualityScore ==
    NonFatal =>
        LET count == Len(Waypoints)
            base == IF count >= 10 THEN 10
                    ELSE IF count >= 5 THEN 8
                    ELSE IF count >= 3 THEN 5
                    ELSE 2
            duplicate_penalty == Min(RepeatedWaypoints, 3)
            gap_penalty == IF 10 * ClosePairs > 3 * count THEN 2 ELSE 0
        IN  Quality.score
               = Max(0, base - duplicate_penalty - gap_penalty) * Quality.max

\* more than three duplicates, many close pairs, and a score above zero
C26_Witness ==
    /\ NonFatal
    /\ RepeatedWaypoints > 3
    /\ 10 * ClosePairs > 3 * Len(Waypoints)
    /\ Quality.score = 3 * Quality.max

\* the Geofence result of the report shown
Geofence == report.checks[3].result

\* the waypoints of the route shown within the bounds, the edges included
Inside ==
    {i \in DOMAIN Waypoints :
        /\ bounds.min_lat <= Waypoints[i][1]
        /\ Waypoints[i][1] <= bounds.max_lat
        /\ bounds.min_lon <= Waypoints[i][2]
        /\ Waypoints[i][2] <= bounds.max_lon}

\* the waypoints of the route shown on an edge of the bounds
OnEdge ==
    {i \in Inside :
        \/ Waypoints[i][1] \in {bounds.min_lat, bounds.max_lat}
        \/ Waypoints[i][2] \in {bounds.min_lon, bounds.max_lon}}

\* C27, as stated: the Geofence score is exactly (in_bounds_count /
\* total_count) * weight, a waypoint being in bounds iff min_lat <= lat <=
\* max_lat and min_lon <= lon <= max_lon.  (Scores are in tenths.)
C27_GeofenceExact ==
    NonFatal =>
        Geofence.score * Len(Waypoints)
            = 10 * Cardinality(Inside) * Geofence.max

\* C27, amended: the Geofence score is (in_bounds_count / total_count) *
\* weight rounded to one decimal, a waypoint being in bounds iff min_lat <=
\* lat <= max_lat and min_lon <= lon <= max_lon, so that a waypoint on an
\* edge counts as in bounds; 3 of 10 waypoints outside gives 0.7 * weight.
C27_GeofenceRounded ==
    NonFatal =>
        /\ 2 * Abs(Geofence.score * Len(Waypoints)
                   - 10 * Cardinality(Inside) * Geofence.max)
              <= Len(Waypoints)
        /\ (Len(Waypoints) = 10 /\ Cardinality(Inside) = 7)
              => Geofence.score = 7 * Geofence.max

\* a waypoint on a corner of the bounds counted in, and a score that is
\* not the exact quotient
C27_Witness ==
    /\ NonFatal
    /\ OnEdge # {}
    /\ Geofence.score * Len(Waypoints)
          # 10 * Cardinality(Inside) * Geofence.max

\* the Completeness result of the report shown
Completeness == report.checks[1].result

\* a field of the route shown is present: not absent, not "" and not []
Present(field) == field # <<>> /\ field[1] # <<>>

RequiredPresent ==
    Cardinality({f \in {"waypoints", "total_distance", "estimated_time"} :
                   Present(route[f])})

OptionalPresent ==
    Cardinality({f \in {"route_description", "points_of_interest",
                        "local_events"} : Present(route[f])})

\* C28, as stated: the Completeness score is exactly (required_present / 3)
\* * 0.6 * weight + (optional_present / 3) * 0.4 * weight, over the required
\* fields waypoints, total_distance, estimated_time and the optional fields
\* route_description, points_of_interest, local_events, a field being
\* present iff it is not absent, not an empty string and not an empty
\* sequence.  (Scores are in tenths: 3 * score = max * (6 * rp + 4 * op).)
C28_CompletenessExact ==
    NonFatal =>
        3 * Completeness.score
            = Completeness.max * (6 * RequiredPresent + 4 * OptionalPresent)

\* C28, amended: the Completeness score is that sum rounded to one decimal.
C28_CompletenessRounded ==
    NonFatal =>
        2 * Abs(3 * Completeness.score
                - Completeness.max * (6 * RequiredPresent + 4 * OptionalPresent))
            <= 3

\* an empty total_distance and an absent estimated_time count as not
\* present, and one optional field of three leaves a score of 3.3
C28_Witness ==
    /\ NonFatal
    /\ route.total_distance = Has(<<>>)
    /\ route.estimated_time = Absent
    /\ OptionalPresent = 1
    /\ Completeness.score = 33

\* the Speed Sanity result of the report shown
Speed == report.checks[5].result

\* the total_distance of the route shown is absent or holds no digit, so
\* that extract_number finds no number in it
NoClaimedDistance ==
    \/ route.total_distance = <<>>
    \/ \A i \in DOMAIN route.total_distance[1] :
          route.total_distance[1][i] \notin Digits

\* the warnings that speak of the claimed distance or of the speed
DistanceWarnings ==
    {Msg("Missing required field", <<2>>)}
    \cup {w \in {report.warnings[i] : i \in DOMAIN report.warnings} :
            w.kind \in {"Distance mismatch", "Speed is fast - jogging pace",
                        "Speed is unrealistic for walking"}}

\* C29: whenever the claimed total_distance parses to 0, the field being
\* absent or holding no number, Speed Sanity scores 0 and emits no warning,
\* whatever estimated_time and the waypoints are; when the field is present
\* and not numeric, no warning of the report speaks of it either.
C29_SilentZero ==
    (NonFatal /\ NoClaimedDistance) =>
        /\ Speed.score = 0
        /\ Speed.warnings = <<>>
        /\ Present(route.total_distance)
              => \A i \in DOMAIN report.warnings :
                    report.warnings[i] \notin DistanceWarnings

\* a route that claims "n/a" for its distance and a time, over a path that
\* has a length
C29_Witness ==
    /\ NonFatal
    /\ NoClaimedDistance
    /\ Present(route.total_distance)
    /\ ArgsOf(Speed.details, "Claimed time")[1] > 0
    /\ ArgsOf(Speed.details, "Calculated distance")[1] > 0
    /\ Speed.score = 0

\* C30: the 0.5 * weight fallback of Route Efficiency is never taken: for
\* every route of at least 2 waypoints the ratio lies in exactly one of the
\* bands 0.25..0.85, above 0.85 and below 0.25, and the result is that
\* band's; the path distance is never less than the direct distance, so a
\* direct distance above zero never meets a path distance of zero.  (Each
\* distance is computed to a finite precision, 1e-5 mile here, so the sum
\* over the segments is compared with the direct distance to within one
\* unit for each waypoint.)
C30_NoFallback ==
    NonFatal =>
        LET ratio == ArgsOf(Efficiency.details, "Efficiency ratio")
            ideal == 4 * ratio[1] >= ratio[2] /\ 20 * ratio[1] <= 17 * ratio[2]
            direct == 20 * ratio[1] > 17 * ratio[2]
            zigzag == 4 * ratio[1] < ratio[2]
        IN  /\ Cardinality({b \in {1, 2, 3} :
                               \/ b = 1 /\ ideal
                               \/ b = 2 /\ direct
                               \/ b = 3 /\ zigzag}) = 1
            /\ ideal => /\ Efficiency.score = 10 * Efficiency.max
                        /\ Efficiency.warnings = <<>>
            /\ direct => /\ Efficiency.score = 8 * Efficiency.max
                         /\ HasLine(Efficiency.details, "Route is very direct")
            /\ zigzag => HasLine(Efficiency.warnings,
                                 "Route appears to zigzag excessively")
            /\ RoutePath + Len(Waypoints) >= RouteDirect
            /\ ~(RouteDirect > 0 /\ RoutePath = 0)

\* a route of two waypoints, whose path is the straight line
C30_Witness ==
    /\ NonFatal
    /\ Len(Waypoints) = 2
    /\ RouteDirect > 0
    /\ RoutePath = RouteDirect
    /\ Efficiency.score = 8 * Efficiency.max
====
